---- MODULE Spec2Model ----
(***************************************************************************)
(* HealthExplain AI (GavaraLokesh/healthbot-new).                          *)
(*                                                                         *)
(* The state machines of this module:                                      *)
(*   Spec        the Streamlit application src/app.py: the user store      *)
(*               file, the session state, the login / register forms, the  *)
(*               route guard and the pages that act on the session;        *)
(*   SpecChat    the chat page of src/app.py on its own;                   *)
(*   SpecRace    two sessions submitting the register form at once;        *)
(*   SpecAlarm   the alarm script of build_alarm_js;                       *)
(*   SpecWidget  the voice widget script of build_voice_widget_html;       *)
(*   SpecAgent   agent_node of src/voice-server/agent_graph.py, a pure     *)
(*               function of the language model's outcome;                 *)
(*   SpecVoice   POST /voice of the two voice proxies                      *)
(*               (src/voice_server/voice_proxy.py, the Gemini variant, and *)
(*               src/voice-server/voice_proxy.py, the merged variant);     *)
(*   SpecShorten the short-reply logic of the two proxies;                 *)
(*   SpecVision  POST /vision of the merged proxy.                         *)
(*                                                                         *)
(* Texts are sequences of one-character strings, so that strip, lower,     *)
(* slicing and rsplit are computed and not assumed.  A character outside   *)
(* ASCII is written as its code point ("U0930").                           *)
(***************************************************************************)
EXTENDS Integers, Sequences, FiniteSets, TLC

VARIABLES
    \* ---- src/app.py ----
    usersFile,      \* users.json: [state: absent | corrupt | valid, users: mapping]
    logged_in,      \* st.session_state.logged_in
    username,       \* st.session_state.username
    chat_history,   \* st.session_state.chat_history
    user_input,     \* st.session_state.user_input
    nav,            \* st.session_state.nav
    ui_language,    \* st.session_state.ui_language
    reminders,      \* st.session_state.reminders
    rendered,       \* the views the last script run rendered
    last,           \* the last login / register / logout submit and what it did
    prediction,     \* what diabetes_page shows for the Predict click of this run
    invoked,        \* the message lists graph.invoke was given in this run
    \* ---- src/voice-server/agent_graph.py ----
    lm,             \* the outcome of model.generate_content for this invocation
    agent,          \* [pc, image, reply]: agent_node's position and its reply
    \* ---- the voice proxies ----
    req,            \* the POST /voice request: [variant, payload]
    vs,             \* the request's handling: position, locals, calls, response
    \* ---- functions and handlers modelled on their own ----
    sh,             \* the short-reply logic: [pc, variant, text, out]
    vis,            \* a POST /vision request: its inputs, what fails, the response
    reg,            \* two sessions registering at once: where each one stands
    alarm,          \* the alarm script of the open page and the speech queue
    va              \* the voice widget's script: flag, status, recognition sessions

appVars == <<usersFile, logged_in, username, chat_history, user_input, nav,
             ui_language, reminders, rendered, last, prediction, invoked>>
agentVars == <<lm, agent>>
voiceVars == <<req, vs>>
sideVars == <<sh, vis, reg, alarm, va>>
vars == <<appVars, agentVars, voiceVars, sideVars>>

(***************************************************************************)
(* Bounds of the model.                                                    *)
(***************************************************************************)
\* Send is disabled once the chat history holds this many question/reply turns.
MaxTurns == 1
\* Add Reminder is disabled once the session holds this many reminders.
MaxReminders == 1

(***************************************************************************)
(* Texts                                                                   *)
(***************************************************************************)
\* Characters str.strip() removes (Python's whitespace; the ones modelled).
Whitespace == {" ", "\n", "\t"}

RECURSIVE LStrip(_)
LStrip(s) == IF s # <<>> /\ Head(s) \in Whitespace THEN LStrip(Tail(s)) ELSE s

RECURSIVE RStrip(_)
RStrip(s) ==
    IF s # <<>> /\ s[Len(s)] \in Whitespace
    THEN RStrip(SubSeq(s, 1, Len(s) - 1)) ELSE s

\* str.strip()
Strip(s) == RStrip(LStrip(s))

\* s[:n] of Python, n >= 0
Prefix(s, n) == SubSeq(s, 1, IF n < Len(s) THEN n ELSE Len(s))

\* s.rsplit(" ", 1)[0]: what precedes the last " " of s, or s when it has none.
\* Only the space character is a separator, not the other whitespace.
RSplitSpaceHead(s) ==
    LET spaces == {i \in 1..Len(s) : s[i] = " "}
    IN  IF spaces = {} THEN s
        ELSE LET k == CHOOSE i \in spaces : \A j \in spaces : j <= i
             IN  SubSeq(s, 1, k - 1)

Ellipsis == <<".", ".", ".">>


(***************************************************************************)
(* src/voice-server/agent_graph.py: agent_node                             *)
(***************************************************************************)
\* The fixed apology sentence of agent_node and ask_ai.
APOLOGY ==
    <<"S", "o", "r", "r", "y", ",", " ", "I", " ", "a", "m", " ", "n", "o",
      "t", " ", "a", "b", "l", "e", " ", "t", "o", " ", "a", "n", "s", "w",
      "e", "r", " ", "r", "i", "g", "h", "t", " ", "n", "o", "w", ".", " ",
      "P", "l", "e", "a", "s", "e", " ", "t", "r", "y", " ", "a", "g", "a",
      "i", "n", ".">>

\* The length agent_node keeps replies under ("Keep short").
REPLY_LIMIT == 500

\* An outcome of model.generate_content(...): it raises with message err, or
\* it returns a response whose .text is None, or it returns a text.
LmRaise(err) == [kind |-> "raise", err |-> err, text |-> <<>>]
LmNone == [kind |-> "none", err |-> <<>>, text |-> <<>>]
LmText(t) == [kind |-> "text", err |-> <<>>, text |-> t]

\* The text after the try/except: (resp.text or "").strip(), or the f-string
\* of the except branch, which appends " (<error>)" to the apology.
AgentTextAfterCall(outcome) ==
    IF outcome.kind = "raise"
    THEN APOLOGY \o <<" ", "(">> \o outcome.err \o <<")">>
    ELSE Strip(outcome.text)

\* An agent_node without the empty-text fallback.
AgentNonEmpty_Missing(text) == text

\* "if not text: text = <apology>"
AgentNonEmpty(text) == IF text = <<>> THEN APOLOGY ELSE text

\* "if len(text) > 500: text = text[:500].rsplit(" ", 1)[0] + '...'"
AgentKeepShort(text) ==
    IF Len(text) > REPLY_LIMIT
    THEN RSplitSpaceHead(Prefix(text, REPLY_LIMIT)) \o Ellipsis
    ELSE text

\* state["reply"] as agent_node leaves it.
agent_node(outcome) == AgentKeepShort(AgentNonEmpty(AgentTextAfterCall(outcome)))

\* graph.invoke({"messages": ...}): LangGraph raises, or the state agent_node
\* returned for the language model's outcome.
GraphInvoke(outcome, graphRaises) ==
    [raised |-> graphRaises,
     reply |-> IF graphRaises THEN <<>> ELSE agent_node(outcome)]

(***************************************************************************)
(* The voice proxies: helpers                                              *)
(*   "gemini"  src/voice_server/voice_proxy.py (Gemini client, retries)    *)
(*   "merged"  src/voice-server/voice_proxy.py (calls the agent graph)     *)
(***************************************************************************)
Variants == {"gemini", "merged"}

UpperChars ==
    <<"A", "B", "C", "D", "E", "F", "G", "H", "I", "J", "K", "L", "M", "N",
      "O", "P", "Q", "R", "S", "T", "U", "V", "W", "X", "Y", "Z">>
LowerChars ==
    <<"a", "b", "c", "d", "e", "f", "g", "h", "i", "j", "k", "l", "m", "n",
      "o", "p", "q", "r", "s", "t", "u", "v", "w", "x", "y", "z">>

\* str.lower(), on the characters modelled: the ASCII capitals have a lower
\* case, the other characters (the Indic scripts among them) are unchanged.
LowerChar(c) ==
    IF \E i \in 1..Len(UpperChars) : UpperChars[i] = c
    THEN LowerChars[CHOOSE i \in 1..Len(UpperChars) : UpperChars[i] = c]
    ELSE c

Lower(s) == [i \in 1..Len(s) |-> LowerChar(s[i])]

STOP_en_1 == <<"s", "t", "o", "p">>
STOP_hi_1 == <<"U0930", "U0941", "U0915", "U094B">>

STOP_COMMANDS ==
    "en" :> {
        STOP_en_1,
        <<"s", "t", "o", "p", " ", "s", "p", "e", "a", "k", "i", "n", "g">>,
        <<"o", "k", " ", "s", "t", "o", "p">>,
        <<"s", "t", "o", "p", " ", "n", "o", "w">>,
        <<"p", "l", "e", "a", "s", "e", " ", "s", "t", "o", "p">>,
        <<"t", "h", "a", "t", "'", "s", " ", "e", "n", "o", "u", "g", "h">>}
    @@ "hi" :> {
        STOP_hi_1,
        <<"U092C", "U094B", "U0932", "U0928", "U093E", " ", "U092C", "U0902",
          "U0926", " ", "U0915", "U0930", "U094B">>,
        <<"U0930", "U0941", "U0915", "U093F", "U090F">>,
        <<"U092C", "U0902", "U0926", " ", "U0915", "U0930", "U094B">>}
    @@ "te" :> {
        <<"U0C06", "U0C2A", "U0C41">>,
        <<"U0C2E", "U0C3E", "U0C1F", "U0C4D", "U0C32", "U0C3E", "U0C21",
          "U0C1F", "U0C02", " ", "U0C06", "U0C2A", "U0C41">>,
        <<"U0C06", "U0C2A", "U0C02", "U0C21", "U0C3F">>,
        <<"U0C06", "U0C2A", "U0C41", " ", "U0C07", "U0C2A", "U0C4D", "U0C2A",
          "U0C41", "U0C21", "U0C41">>}
    @@ "ta" :> {
        <<"U0BA8", "U0BBF", "U0BB1", "U0BC1", "U0BA4", "U0BCD", "U0BA4",
          "U0BC1">>,
        <<"U0BAA", "U0BC7", "U0B9A", "U0BC1", "U0BB5", "U0BA4", "U0BC8", " ",
          "U0BA8", "U0BBF", "U0BB1", "U0BC1", "U0BA4", "U0BCD", "U0BA4",
          "U0BC1">>,
        <<"U0BA8", "U0BBF", "U0BB1", "U0BC1", "U0BA4", "U0BCD", "U0BA4",
          "U0BC1", "U0B99", "U0BCD", "U0B95", "U0BB3", "U0BCD">>}
    @@ "gu" :> {
        <<"U0AB0", "U0ACB", "U0A95", "U0ACB">>,
        <<"U0AAC", "U0ACB", "U0AB2", "U0AB5", "U0AC1", "U0A82", " ", "U0AAC",
          "U0A82", "U0AA7", " ", "U0A95", "U0AB0", "U0ACB">>,
        <<"U0AAC", "U0A82", "U0AA7", " ", "U0A95", "U0AB0", "U0ACB">>}

L_English == <<"E", "n", "g", "l", "i", "s", "h">>
L_Hindi == <<"H", "i", "n", "d", "i">>
L_hi == <<"h", "i">>

\* The lookup table of LANG_CODE_FROM_LABEL.
LangCodeLookup ==
    L_English :> "en" @@ L_Hindi :> "hi" @@ <<"T", "e", "l", "u", "g", "u">> :> "te" @@ <<"T", "a", "m", "i", "l">> :> "ta"
    @@ <<"G", "u", "j", "a", "r", "a", "t", "i">> :> "gu" @@ <<"e", "n">> :> "en" @@ L_hi :> "hi" @@ <<"t", "e">> :> "te"
    @@ <<"t", "a">> :> "ta" @@ <<"g", "u">> :> "gu"

\* The table of GTTS_LANG_FROM_LABEL: the display names only.
GttsLookup ==
    L_English :> "en" @@ L_Hindi :> "hi" @@ <<"T", "e", "l", "u", "g", "u">> :> "te" @@ <<"T", "a", "m", "i", "l">> :> "ta"
    @@ <<"G", "u", "j", "a", "r", "a", "t", "i">> :> "gu"

\* The largest member of a non-empty set of numbers.
Max(S) == CHOOSE x \in S : \A y \in S : y <= x

\* dict.get(key, default)
DictGet(table, key, default) == IF key \in DOMAIN table THEN table[key] ELSE default

\* LANG_CODE_FROM_LABEL: the Gemini variant answers "en" for an empty label
\* and strips the label before the lookup, the merged variant looks the label
\* up as it is.
LANG_CODE_FROM_LABEL(variant, label) ==
    IF variant = "gemini"
    THEN IF label = <<>> THEN "en" ELSE DictGet(LangCodeLookup, Strip(label), "en")
    ELSE DictGet(LangCodeLookup, label, "en")

\* GTTS_LANG_FROM_LABEL
GTTS_LANG_FROM_LABEL(variant, label) ==
    IF variant = "gemini" THEN DictGet(GttsLookup, Strip(label), "en")
    ELSE DictGet(GttsLookup, label, "en")

\* detect_stop_phrase comparing the text as typed, without lower().
detect_stop_phrase_CaseSensitive(variant, text, label) ==
    IF text = <<>> THEN FALSE
    ELSE LET stop_list == DictGet(STOP_COMMANDS, LANG_CODE_FROM_LABEL(variant, label), {})
         IN  Strip(text) \in stop_list

\* detect_stop_phrase(text, lang_label), the same in both variants.
detect_stop_phrase(variant, text, label) ==
    IF text = <<>> THEN FALSE
    ELSE LET stop_list == DictGet(STOP_COMMANDS, LANG_CODE_FROM_LABEL(variant, label), {})
         IN  Lower(Strip(text)) \in {Lower(p) : p \in stop_list}

\* A character of a text is kept by re.sub(r"\s+", " ", text).strip() when
\* it is no whitespace, or is the first whitespace after such a character.
Kept(e) == e.keep

\* re.sub(r"\s+", " ", text) without the leading run: every run of
\* whitespace becomes one space.
Collapse(s) ==
    LET tagged == [i \in 1..Len(s) |->
                      [c |-> IF s[i] \in Whitespace THEN " " ELSE s[i],
                       keep |-> \/ s[i] \notin Whitespace
                                \/ i > 1 /\ s[i - 1] \notin Whitespace]]
        kept == SelectSeq(tagged, Kept)
    IN  [i \in 1..Len(kept) |-> kept[i].c]

\* re.sub(r"\s+", " ", text).strip(), and " ".join(text.split()).strip()
NormalizeSpaces(s) == RStrip(Collapse(s))

SentenceEnd == {".", "!", "?"}

\* The k-th smallest member of a set of numbers.
KthSmallest(S, k) == CHOOSE x \in S : Cardinality({y \in S : y < x}) = k - 1

SHORT_MAX_CHARS == 350
SHORT_CUT == 347
MAX_SENTENCES == 2

\* shorten_text_to_sentences(text, max_sentences) of the Gemini variant.
\* re.split(r"(?<=[.!?])\s+", t) cuts t at every space that follows a
\* sentence end; with max_sentences or more pieces the first max_sentences
\* are joined again, which is t up to the max_sentences-th cut.
shorten_text_to_sentences(text, max_sentences) ==
    LET t == NormalizeSpaces(text)
        cuts == {i \in 2..Len(t) : t[i] = " " /\ t[i - 1] \in SentenceEnd}
    IN  IF t = <<>> THEN <<>>
        ELSE IF Cardinality(cuts) + 1 >= max_sentences
        THEN IF Cardinality(cuts) >= max_sentences
             THEN Strip(SubSeq(t, 1, KthSmallest(cuts, max_sentences) - 1))
             ELSE t
        ELSE IF Len(t) <= SHORT_MAX_CHARS THEN t
        ELSE RSplitSpaceHead(Prefix(t, SHORT_CUT)) \o Ellipsis

\* shorten_text(text, max_chars=350) of the merged variant.
shorten_text(text) ==
    LET t == NormalizeSpaces(text)
    IN  IF Len(t) <= SHORT_MAX_CHARS THEN t
        ELSE RSplitSpaceHead(Prefix(t, SHORT_MAX_CHARS)) \o Ellipsis

\* A field of the JSON body: missing, or present with a text value.
Absent == [present |-> FALSE, v |-> <<>>]
Val(s) == [present |-> TRUE, v |-> s]

\* payload.get(k) is truthy
Truthy(f) == f.present /\ f.v # <<>>

\* "if not payload": the body is the empty object.  other stands for any key
\* besides text, prompt, lang and language ("messages", say).
PayloadEmpty(p) ==
    ~p.text.present /\ ~p.prompt.present /\ ~p.lang.present
    /\ ~p.language.present /\ ~p.other

\* The text of a request taken without strip().
RequestText_NoStrip(variant, p) ==
    IF Truthy(p.text) THEN p.text.v
    ELSE IF variant = "gemini" /\ Truthy(p.prompt) THEN p.prompt.v
    ELSE <<>>

\* text = str(payload.get("text") or payload.get("prompt") or "").strip();
\* the merged variant reads "text" only.
RequestText(variant, p) ==
    IF Truthy(p.text) THEN Strip(p.text.v)
    ELSE IF variant = "gemini" /\ Truthy(p.prompt) THEN Strip(p.prompt.v)
    ELSE <<>>

\* lang_label = str(payload.get("lang") or payload.get("language") or
\* "English").strip(); the merged variant: payload.get("lang") or "English".
RequestLabel(variant, p) ==
    IF variant = "gemini"
    THEN IF Truthy(p.lang) THEN Strip(p.lang.v)
         ELSE IF Truthy(p.language) THEN Strip(p.language.v)
         ELSE L_English
    ELSE IF Truthy(p.lang) THEN p.lang.v ELSE L_English

\* The audio field of a response: null, the base64 MP3 of a text spoken in a
\* language, or the message of an exception.
NullAudio == [kind |-> "null", text |-> <<>>, lang |-> ""]
Mp3(text, lang) == [kind |-> "mp3", text |-> text, lang |-> lang]
ErrorMessage == [kind |-> "error_message", text |-> <<>>, lang |-> ""]

\* tts_synthesize_mp3_gtts(text, lang) of the Gemini variant: (status, value).
\* gTTS is not called for a blank text.
tts_gemini(text, lang, ttsRaises) ==
    IF Strip(text) = <<>> THEN [status |-> 200, value |-> NullAudio, called |-> FALSE]
    ELSE IF ttsRaises THEN [status |-> 500, value |-> ErrorMessage, called |-> TRUE]
    ELSE [status |-> 200, value |-> Mp3(text, lang), called |-> TRUE]

\* tts_synthesize_mp3_gtts(text, lang) of the merged variant: the audio or None.
tts_merged(text, lang, ttsRaises) ==
    IF Strip(text) = <<>> THEN [status |-> 200, value |-> NullAudio, called |-> FALSE]
    ELSE IF ttsRaises THEN [status |-> 500, value |-> NullAudio, called |-> TRUE]
    ELSE [status |-> 200, value |-> Mp3(text, lang), called |-> TRUE]

\* The canned reply of the Gemini variant when no attempt gave a text.
BUSY_REPLY ==
    <<"S", "o", "r", "r", "y", ",", " ", "A", "I", " ", "i", "s", " ", "b",
      "u", "s", "y", " ", "r", "i", "g", "h", "t", " ", "n", "o", "w", ".",
      " ", "P", "l", "e", "a", "s", "e", " ", "t", "r", "y", " ", "a", "g",
      "a", "i", "n", " ", "i", "n", " ", "1", "0", " ", "s", "e", "c", "o",
      "n", "d", "s", ".">>

STOP_SENTINEL == <<"_", "_", "S", "T", "O", "P", "_", "_">>

\* The detail member of a response: what went wrong, with the exception's
\* message where there is one.
NoDetail == [kind |-> "none", err |-> <<>>]
Detail(kind, err) == [kind |-> kind, err |-> err]

\* The responses.  keys are the members of the JSON object returned.
NoResponse ==
    [http |-> 0, keys |-> {}, reply |-> <<>>, audio |-> NullAudio, error |-> "",
     detail |-> NoDetail]
\* raise HTTPException(status_code=400, detail="Missing JSON body")
MissingBody ==
    [http |-> 400, keys |-> {"detail"}, reply |-> <<>>, audio |-> NullAudio,
     error |-> "", detail |-> Detail("Missing JSON body", <<>>)]
\* {"reply": reply, "audio": audio}
ReplyAudio(reply, audio) ==
    [http |-> 200, keys |-> {"reply", "audio"}, reply |-> reply, audio |-> audio,
     error |-> "", detail |-> NoDetail]
\* {"reply": ..., "audio": ..., "error": ..., "detail": ...}
ReplyAudioError(reply, audio, error, detail) ==
    [http |-> 200, keys |-> {"reply", "audio", "error", "detail"}, reply |-> reply,
     audio |-> audio, error |-> error, detail |-> detail]

\* The JSON body {}.
NoPayload ==
    [text |-> Absent, prompt |-> Absent, lang |-> Absent, language |-> Absent,
     other |-> FALSE]

\* voice_endpoint has been entered and has done nothing yet.  log lists the
\* calls made to the outside: "primary" and "fallback" (generate_content of
\* the two models), "sleep", "agent" (graph.invoke) and "tts" (gTTS); tts
\* tells how the call to gTTS ended ("none" while it was not called).
VoiceStart ==
    [pc |-> "start", text |-> <<>>, label |-> <<>>, attempt |-> 0, status |-> 0,
     gen_text |-> <<>>, last_error |-> NoDetail, log |-> <<>>, tts |-> "none",
     resp |-> NoResponse]

\* How a call of tts_synthesize_mp3_gtts ended.
TtsEnded(tts) ==
    IF ~tts.called THEN "none" ELSE IF tts.status = 200 THEN "ok" ELSE "raised"

(***************************************************************************)
(* src/app.py: the user store                                              *)
(***************************************************************************)
\* Identifiers and passwords typed into the forms; "" is the empty field.
Ids == {"", "a@x.com", "b@x.com"}
Passwords == {"", "p1", "p2"}

EmptyUsers == [i \in {} |-> [password |-> ""]]

\* users.json does not exist.
AbsentFile == [state |-> "absent", users |-> EmptyUsers]
\* users.json exists and json.load fails on it or yields no dict (an empty or
\* partly written file).
CorruptFile == [state |-> "corrupt", users |-> EmptyUsers]
\* users.json holds the mapping users.
ValidFile(users) == [state |-> "valid", users |-> users]

\* load_users(): the mapping of the file, {} when the file is absent,
\* unreadable or not a mapping.
load_users(file) == IF file.state = "valid" THEN file.users ELSE EmptyUsers

\* What can happen in save_users: every write succeeds; open(..., "w") raises
\* and the file is as it was; open(..., "w") has truncated the file and
\* json.dump or the close raises, which leaves an empty or partial document.
SaveOutcomes == {"ok", "open_failed", "write_failed"}

\* save_users(users): the file afterwards and the flag returned.
save_users(file, users, outcome) ==
    CASE outcome = "ok" -> [file |-> ValidFile(users), ok |-> TRUE]
      [] outcome = "open_failed" -> [file |-> file, ok |-> FALSE]
      [] OTHER -> [file |-> CorruptFile, ok |-> FALSE]

\* An insert that forgets the accounts loaded.
InsertUser_Alone(users, id, pw) == [i \in {id} |-> [password |-> pw]]

\* users[reg_email] = {"password": reg_pw}
InsertUser(users, id, pw) ==
    [i \in DOMAIN users \cup {id} |->
        IF i = id THEN [password |-> pw] ELSE users[i]]

\* A register form that overwrites: the existence check never fires.
UserExists_Never(users, id) == FALSE

\* "if reg_email in users"
UserExists(users, id) == id \in DOMAIN users

\* A register form that does not compare the confirmation.
RegisterFormError_NoConfirm(id, pw, confirm) ==
    IF id = "" \/ pw = "" THEN "Please fill all fields" ELSE ""

\* The validation of the register form: the error shown, "" when the form
\* passes.
RegisterFormError(id, pw, confirm) ==
    IF id = "" \/ pw = "" THEN "Please fill all fields"
    ELSE IF pw # confirm THEN "Passwords do not match"
    ELSE ""

\* A login that does not compare the password.
CredentialsMatch_IdOnly(users, id, pw) == id \in DOMAIN users

\* The condition of the login form:
\* login_email in users and users[login_email].get("password") == login_password
CredentialsMatch(users, id, pw) ==
    id \in DOMAIN users /\ users[id].password = pw

(***************************************************************************)
(* src/app.py: session, route guard and pages                              *)
(***************************************************************************)
Pages == {"Home", "Chat Assistant", "AI Doctor Vision", "Diabetes Prediction",
          "Alarm Reminder"}
Languages == {"English", "Hindi", "Telugu", "Tamil", "Gujarati"}

\* A script without the route guard: the pages render while logged out.
Route_NoGuard(li, nv) == {"Sidebar", IF nv \in Pages THEN nv ELSE "Home"}

\* What one run of the script renders: the login / register view alone while
\* logged out (st.stop()), else the sidebar and the page nav selects.
Route(li, nv) ==
    IF ~li THEN {"LoginRegister"}
    ELSE {"Sidebar", IF nv \in Pages THEN nv ELSE "Home"}

\* The account the previous submit created, for the record of a submit.
NoAccount == [id |-> "", pw |-> ""]

NoSubmit ==
    [n |-> 0, op |-> "none", id |-> "", pw |-> "", confirm |-> "",
     msg |-> "", loaded |-> FALSE, saved |-> FALSE, follows |-> NoAccount]

\* The record of a submit: the form's fields, the message shown, whether the
\* handler loaded the store and whether it called save_users.  n alternates
\* from one submit to the next, and follows is the account created by the
\* submit right before this one, if that was a successful registration.
Submit(op, id, pw, confirm, msg, loaded, saved) ==
    [n |-> 1 - last.n, op |-> op, id |-> id, pw |-> pw, confirm |-> confirm,
     msg |-> msg, loaded |-> loaded, saved |-> saved,
     follows |-> IF last.op = "register" /\ last.msg = "Account created. Please login."
                 THEN [id |-> last.id, pw |-> last.pw] ELSE NoAccount]

\* No "Estimated risk" message is on the page.
NoPrediction == [glucose |-> -1, age |-> -1, risk |-> "none"]

\* The session defaults and the first render.
AppInit ==
    /\ usersFile = AbsentFile
    /\ logged_in = FALSE
    /\ username = ""
    /\ chat_history = <<>>
    /\ user_input = <<>>
    /\ nav = "Home"
    /\ ui_language = "English"
    /\ reminders = <<>>
    /\ rendered = Route(FALSE, "Home")
    /\ last = NoSubmit
    /\ prediction = NoPrediction
    /\ invoked = <<>>

\* The Login form's submit.
LoginSubmit(id, pw) ==
    /\ "LoginRegister" \in rendered
    /\ LET users == load_users(usersFile)
           ok == CredentialsMatch(users, id, pw)
       IN  /\ logged_in' = IF ok THEN TRUE ELSE logged_in
           /\ username' = IF ok THEN id ELSE username
           /\ last' = Submit("login", id, pw, "",
                             IF ok THEN "Logged in" ELSE "Invalid credentials",
                             TRUE, FALSE)
    /\ rendered' = Route(logged_in', nav)
    /\ UNCHANGED <<usersFile, chat_history, user_input, nav, ui_language, reminders>>

\* The Create account form's submit.
RegisterSubmit(id, pw, confirm, outcome) ==
    /\ "LoginRegister" \in rendered
    /\ LET err == RegisterFormError(id, pw, confirm)
       IN  IF err # ""
           THEN /\ last' = Submit("register", id, pw, confirm, err, FALSE, FALSE)
                /\ usersFile' = usersFile
           ELSE LET users == load_users(usersFile)
                IN  IF UserExists(users, id)
                    THEN /\ last' = Submit("register", id, pw, confirm,
                                           "User already exists", TRUE, FALSE)
                         /\ usersFile' = usersFile
                    ELSE LET r == save_users(usersFile, InsertUser(users, id, pw),
                                             outcome)
                         IN  /\ usersFile' = r.file
                             /\ last' = Submit("register", id, pw, confirm,
                                    IF r.ok THEN "Account created. Please login."
                                    ELSE "Error saving account.", TRUE, TRUE)
    /\ rendered' = Route(logged_in, nav)
    /\ UNCHANGED <<logged_in, username, chat_history, user_input, nav,
                   ui_language, reminders>>

\* A logout that forgets the reminders.
Logout_KeepsReminders ==
    /\ "Sidebar" \in rendered
    /\ logged_in' = FALSE
    /\ username' = ""
    /\ chat_history' = <<>>
    /\ last' = Submit("logout", "", "", "", "", FALSE, FALSE)
    /\ rendered' = Route(logged_in', nav)
    /\ UNCHANGED <<usersFile, user_input, nav, ui_language, reminders>>

\* The Logout button of the sidebar.
Logout ==
    /\ "Sidebar" \in rendered
    /\ logged_in' = FALSE
    /\ username' = ""
    /\ chat_history' = <<>>
    /\ reminders' = <<>>
    /\ last' = Submit("logout", "", "", "", "", FALSE, FALSE)
    /\ rendered' = Route(logged_in', nav)
    /\ UNCHANGED <<usersFile, user_input, nav, ui_language>>

\* The sidebar's radio: nav_change copies the selection into nav.
NavChange(page) ==
    /\ "Sidebar" \in rendered
    /\ nav' = page
    /\ rendered' = Route(logged_in, nav')
    /\ UNCHANGED <<usersFile, logged_in, username, chat_history, user_input,
                   ui_language, reminders, last>>


\* The history graph.invoke is given by ask_ai: the user's message is in it.
Asked(history, question) == Append(history, [role |-> "user", content |-> question])

\* ask_ai that leaves the user's message out of the history.
ask_ai_ReplyOnly(history, question, result) ==
    IF Strip(question) = <<>> THEN history
    ELSE Append(history, [role |-> "assistant",
                          content |-> IF result.raised \/ result.reply = <<>>
                                      THEN APOLOGY ELSE result.reply])

\* ask_ai(question): the chat history afterwards.
ask_ai(history, question, result) ==
    IF Strip(question) = <<>> THEN history
    ELSE LET asked == Asked(history, question)
             reply0 == IF result.raised THEN APOLOGY ELSE result.reply
             reply == IF reply0 = <<>> THEN APOLOGY ELSE reply0
         IN  Append(asked, [role |-> "assistant", content |-> reply])

\* What the user types into "Ask a question:".
UserInputs == {<<" ">>, <<" ", "h", "i">>}

\* What the language model does during a Send of the chat page.
AppLmOutcomes == {LmText(<<"o", "k">>), LmRaise(<<"e">>)}

\* The text input of the chat page (key="user_input").
SetUserInput(text) ==
    /\ "Chat Assistant" \in rendered
    /\ user_input' = text
    /\ rendered' = Route(logged_in, nav)
    /\ UNCHANGED <<usersFile, logged_in, username, chat_history, nav,
                   ui_language, reminders, last>>

\* The languages the user picks in the chat page's selectbox.
LanguageChoices == {"English", "Hindi"}

\* The Language selectbox of the chat page (key="ui_language").
SelectLanguage(lang) ==
    /\ "Chat Assistant" \in rendered
    /\ ui_language' = lang
    /\ rendered' = Route(logged_in, nav)
    /\ UNCHANGED <<usersFile, logged_in, username, chat_history, user_input,
                   nav, reminders, last>>

\* handle_send, the Send button's callback.
handle_send(outcome, graphRaises) ==
    /\ "Chat Assistant" \in rendered
    /\ LET q == Strip(user_input)
       IN  IF q = <<>>
           THEN UNCHANGED <<chat_history, user_input>> /\ invoked' = <<>>
           ELSE /\ chat_history' =
                       ask_ai(chat_history, q, GraphInvoke(outcome, graphRaises))
                /\ user_input' = <<>>
                /\ invoked' = <<Asked(chat_history, q)>>
    /\ rendered' = Route(logged_in, nav)
    /\ UNCHANGED <<usersFile, logged_in, username, nav, ui_language, reminders, last>>

\* The Clear chat button.
ClearChat ==
    /\ "Chat Assistant" \in rendered
    /\ chat_history' = <<>>
    /\ rendered' = Route(logged_in, nav)
    /\ UNCHANGED <<usersFile, logged_in, username, user_input, nav, ui_language,
                   reminders, last>>

DigitChars == <<"0", "1", "2", "3", "4", "5", "6", "7", "8", "9">>

\* "%02d"
Pad2(n) == <<DigitChars[(n \div 10) + 1], DigitChars[(n % 10) + 1]>>

\* time_str.strftime("%H:%M")
FormatHHMM(t) == Pad2(t.h) \o <<":">> \o Pad2(t.m)

\* Times picked and repeat counts slid to on the alarm page.
ReminderTimes == {[h |-> 16, m |-> 5]}
ReminderRepeats == {1, 7}

\* The Add Reminder button.  The "created" timestamp of the record is never
\* read and is left out.
AddReminder(t, repeat) ==
    /\ "Alarm Reminder" \in rendered
    /\ Len(reminders) < MaxReminders
    /\ reminders' = Append(reminders,
           [name |-> "Mr. Lokesh", msg |-> "Please take tablets. It's 4 PM.",
            time |-> FormatHHMM(t), repeat |-> repeat])
    /\ rendered' = Route(logged_in, nav)
    /\ UNCHANGED <<usersFile, logged_in, username, chat_history, user_input,
                   nav, ui_language, last>>

\* The Delete button of row idx (0-based in the code): reminders.pop(idx).
DeleteReminder(idx) ==
    /\ "Alarm Reminder" \in rendered
    /\ idx \in 1..Len(reminders)
    /\ reminders' = [i \in 1..(Len(reminders) - 1) |->
                        IF i < idx THEN reminders[i] ELSE reminders[i + 1]]
    /\ rendered' = Route(logged_in, nav)
    /\ UNCHANGED <<usersFile, logged_in, username, chat_history, user_input,
                   nav, ui_language, last>>

\* The rule of diabetes_page with "High" above 200 only.
DiabetesRisk_Above(glucose) ==
    IF glucose > 200 THEN "High" ELSE IF glucose >= 140 THEN "Moderate" ELSE "Low"

\* diabetes_page: the risk shown for a glucometer reading.
DiabetesRisk(glucose) ==
    IF glucose >= 200 THEN "High" ELSE IF glucose >= 140 THEN "Moderate" ELSE "Low"

\* The values of the two number inputs tried (age 1..120, reading 0..1000).
Ages == {1, 120}
GlucoseReadings == {0, 139, 140, 199, 200, 1000}

\* The Predict button of diabetes_page, with the values the two number
\* inputs hold: st.success shows the risk in this run.
Predict(glucose, age) ==
    /\ "Diabetes Prediction" \in rendered
    /\ prediction' = [glucose |-> glucose, age |-> age, risk |-> DiabetesRisk(glucose)]
    /\ rendered' = Route(logged_in, nav)
    /\ UNCHANGED <<usersFile, logged_in, username, chat_history, user_input,
                   nav, ui_language, reminders, last>>

\* A script run without a click on Send does not call the agent graph.
NoSend == invoked' = <<>>

\* A script run without a click on Predict shows no risk message, and the
\* other machines stand still.
NoPredict ==
    /\ prediction' = NoPrediction
    /\ UNCHANGED <<agentVars, voiceVars, sideVars>>

\* The agent is not running on its own while the application is modelled.
AgentParked ==
    /\ lm = LmNone
    /\ agent = [pc |-> "parked", image |-> FALSE, reply |-> <<>>]

\* No request is being handled while another machine is modelled.
VoiceParked ==
    /\ req = [variant |-> "none", payload |-> NoPayload]
    /\ vs = [VoiceStart EXCEPT !.pc = "parked"]

\* The short-reply logic is not being exercised.
ShortenParked == sh = [pc |-> "parked", variant |-> "none", text |-> <<>>, out |-> <<>>]

\* No POST /vision request is being handled.
VisionParked ==
    vis = [pc |-> "parked", image |-> "none", readRaises |-> FALSE,
           graphRaises |-> FALSE, lm |-> LmNone, resp |-> NoResponse]

\* A session that is not submitting the register form.
RegIdle ==
    [pc |-> "idle", id |-> "", pw |-> "", users |-> EmptyUsers, stale |-> FALSE,
     msg |-> ""]

\* No two sessions are registering at once.
RaceParked == reg = [procs |-> [p \in {1, 2} |-> RegIdle], overlapped |-> FALSE]

\* The alarm script with these reminders has just been injected: no tick
\* yet, nothing said.  chains holds one entry for every speakText call (its
\* reminder, its count, the tick it was made at), queue the utterances given
\* to speechSynthesis (the first one is being spoken), begun and ended the
\* utterances of each reminder that began and ended in its matching minute.
AlarmLoaded(rems) ==
    [reminders |-> rems, tick |-> 0, chains |-> <<>>, queue |-> <<>>,
     begun |-> [i \in 1..Len(rems) |-> 0], ended |-> [i \in 1..Len(rems) |-> 0]]

\* The alarm page is not open.
AlarmParked == alarm = AlarmLoaded(<<>>)

\* The widget's script has just run: setStatus('Idle'), no click yet.
\* supported tells whether the browser has SpeechRecognition; recog is the
\* number of the session of the last SpeechRecognition object, 0 for null.
WidgetLoaded(supported) ==
    [supported |-> supported, isListening |-> FALSE, micon |-> FALSE,
     status |-> "Idle", recog |-> 0, sessions |-> <<>>]

\* The page with the widget is not open.
WidgetParked == va = [WidgetLoaded(FALSE) EXCEPT !.status = "parked"]

SideParked ==
    ShortenParked /\ VisionParked /\ RaceParked /\ AlarmParked /\ WidgetParked

Init == AppInit /\ AgentParked /\ VoiceParked /\ SideParked

Next ==
    \/ \E id \in Ids, pw \in Passwords : LoginSubmit(id, pw) /\ NoPredict /\ NoSend
    \/ \E id \in Ids, pw \in Passwords, confirm \in Passwords, o \in SaveOutcomes :
           RegisterSubmit(id, pw, confirm, o) /\ NoPredict /\ NoSend
    \/ Logout /\ NoPredict /\ NoSend
    \/ \E page \in Pages : NavChange(page) /\ NoPredict /\ NoSend
    \/ \E text \in UserInputs : SetUserInput(text) /\ NoPredict /\ NoSend
    \/ \E lang \in LanguageChoices : SelectLanguage(lang) /\ NoPredict /\ NoSend
    \/ \E o \in AppLmOutcomes, g \in BOOLEAN :
           Len(chat_history) < 2 * MaxTurns /\ handle_send(o, g) /\ NoPredict
    \/ ClearChat /\ NoPredict /\ NoSend
    \/ \E t \in ReminderTimes, r \in ReminderRepeats :
           AddReminder(t, r) /\ NoPredict /\ NoSend
    \/ \E idx \in 1..MaxReminders : DeleteReminder(idx) /\ NoPredict /\ NoSend
    \/ \E g \in GlucoseReadings, a \in Ages :
           Predict(g, a) /\ NoSend /\ UNCHANGED <<agentVars, voiceVars, sideVars>>

Spec == Init /\ [][Next]_vars


(***************************************************************************)
(* The chat page on its own: a logged-in session that stays on the page    *)
(***************************************************************************)
\* The longest conversation tried.
MaxChatTurns == 3

\* The session of a@x.com after registering, logging in and choosing the
\* chat page in the sidebar; the record of the submits starts empty.
ChatInit ==
    /\ usersFile = ValidFile(InsertUser(EmptyUsers, "a@x.com", "p1"))
    /\ logged_in = TRUE
    /\ username = "a@x.com"
    /\ chat_history = <<>>
    /\ user_input = <<>>
    /\ nav = "Chat Assistant"
    /\ ui_language = "English"
    /\ reminders = <<>>
    /\ rendered = Route(TRUE, "Chat Assistant")
    /\ last = NoSubmit
    /\ prediction = NoPrediction
    /\ invoked = <<>>

InitChat == ChatInit /\ AgentParked /\ VoiceParked /\ SideParked

NextChat ==
    \/ \E text \in UserInputs : SetUserInput(text) /\ NoPredict /\ NoSend
    \/ \E lang \in LanguageChoices : SelectLanguage(lang) /\ NoPredict /\ NoSend
    \/ \E o \in AppLmOutcomes, g \in BOOLEAN :
           Len(chat_history) < 2 * MaxChatTurns /\ handle_send(o, g) /\ NoPredict
    \/ ClearChat /\ NoPredict /\ NoSend

SpecChat == InitChat /\ [][NextChat]_vars

(***************************************************************************)
(* agent_node on its own: one invocation of the graph per behaviour        *)
(***************************************************************************)
\* The longest response tried is REPLY_LIMIT + MaxOver characters long.
MaxOver == 4

\* The characters a response is made of: a letter, the space, a newline.
Chars == {"a", " ", "\n"}

\* The places of a response whose character varies (the others hold "a"):
\* its first two characters, the three around the limit, and its last.
MarkPositions == {1, 2, REPLY_LIMIT - 1, REPLY_LIMIT, REPLY_LIMIT + 1}

ResponseLengths == (0..3) \cup ((REPLY_LIMIT - 2)..(REPLY_LIMIT + MaxOver))

ResponseText(n, marks, lastChar) ==
    [i \in 1..n |-> IF i = n THEN lastChar
                    ELSE IF i \in MarkPositions THEN marks[i] ELSE "a"]

ResponseTexts ==
    {ResponseText(n, marks, c) :
        n \in ResponseLengths, marks \in [MarkPositions -> Chars], c \in Chars}

\* The messages of the exceptions tried: short ones, and ones that bring the
\* apology with its " (...)" suffix to the limit and over it.
ErrorLengths == {0, 1} \cup
    ((REPLY_LIMIT - Len(APOLOGY) - 5)..(REPLY_LIMIT - Len(APOLOGY) - 3 + MaxOver))

ErrorTexts ==
    UNION {{[i \in 1..n |-> IF i = k THEN " " ELSE "e"] : k \in {0, 1, n}} :
              n \in ErrorLengths}

AgentLmOutcomes ==
    {LmNone} \cup {LmText(t) : t \in ResponseTexts} \cup {LmRaise(e) : e \in ErrorTexts}

\* graph.invoke(state) is about to run agent_node; image tells whether the
\* state carries image_bytes (the vision branch) or not (the text branch).
AgentInit ==
    /\ lm \in AgentLmOutcomes
    /\ agent \in {[pc |-> "start", image |-> b, reply |-> <<>>] : b \in BOOLEAN}

\* agent_node: both branches call generate_content and treat its outcome
\* alike; the reply is stored in the state and the node returns.
AgentNode ==
    /\ agent.pc = "start"
    /\ agent' = [agent EXCEPT !.pc = "done", !.reply = agent_node(lm)]
    /\ UNCHANGED lm

InitAgent == AppInit /\ AgentInit /\ VoiceParked /\ SideParked

NextAgent == AgentNode /\ UNCHANGED <<appVars, voiceVars, sideVars>>

SpecAgent == InitAgent /\ [][NextAgent]_vars

(***************************************************************************)
(* POST /voice: one request per behaviour                                  *)
(***************************************************************************)
\* for attempt in range(3), for attempt in range(2)
PRIMARY_ATTEMPTS == 3
FALLBACK_ATTEMPTS == 2

\* The texts tried: missing, empty, blank, stop phrases as configured and
\* with capitals and whitespace around, a phrase with more after it, a
\* question.
RequestTexts ==
    {Absent, Val(<<>>), Val(<<" ", "\n">>), Val(STOP_en_1),
     Val(<<" ", "S", "t", "O", "P", "\n">>), Val(STOP_hi_1),
     Val(STOP_en_1 \o <<" ", "x">>), Val(<<"h", "i">>)}
RequestPrompts == {Absent, Val(STOP_en_1), Val(<<" ">>)}
\* The labels tried: missing, empty, display names, a code, a display name
\* with a space before it, an unknown label.
RequestLangs ==
    {Absent, Val(<<>>), Val(L_English), Val(L_Hindi), Val(L_hi),
     Val(<<" ">> \o L_Hindi), Val(<<"X">>)}
RequestLanguages == {Absent, Val(L_Hindi)}

Requests ==
    {[variant |-> v,
      payload |-> [text |-> t, prompt |-> p, lang |-> l, language |-> a,
                   other |-> o]] :
        v \in Variants, t \in RequestTexts, p \in RequestPrompts,
        l \in RequestLangs, a \in RequestLanguages, o \in BOOLEAN}

\* What generate_content does in one call: a text of three sentences with
\* runs of whitespace, the stop sentinel as a text, a blank text, no text,
\* an exception.
VoiceLmOutcomes ==
    {LmText(<<"H", "i", ".", " ", "\n", "O", "k", "!", " ", "G", "o", "?">>),
     LmText(STOP_SENTINEL), LmText(<<" ">>), LmNone, LmRaise(<<"e">>)}

\* str(e) of an exception of graph.invoke
GraphError == <<"g">>

VoiceInit ==
    /\ req \in Requests
    /\ vs = VoiceStart

\* voice_endpoint up to the first call to the outside: the body check, text
\* and lang_label, the blank short-circuit and the stop command.
VoiceReceive ==
    /\ vs.pc = "start"
    /\ LET v == req.variant
           text == RequestText(v, req.payload)
           label == RequestLabel(v, req.payload)
       IN  vs' = IF PayloadEmpty(req.payload)
                 THEN [vs EXCEPT !.pc = "done", !.resp = MissingBody]
                 ELSE IF text = <<>>
                 THEN [vs EXCEPT !.pc = "done", !.text = text, !.label = label,
                                 !.resp = ReplyAudio(<<>>, NullAudio)]
                 ELSE IF detect_stop_phrase(v, text, label)
                 THEN [vs EXCEPT !.pc = "done", !.text = text, !.label = label,
                                 !.resp = ReplyAudio(STOP_SENTINEL, NullAudio)]
                 ELSE [vs EXCEPT !.pc = IF v = "gemini" THEN "primary" ELSE "agent",
                                 !.text = text, !.label = label]
    /\ UNCHANGED req

\* text = (resp.text or "").strip() of one generate_content call
GeminiText(outcome) == IF outcome.kind = "text" THEN Strip(outcome.text) ELSE <<>>

\* One pass of a retry loop of call_gemini_generate that did not return:
\* last_error is set, and the loop sleeps after an exception only.
GeminiMiss(s, outcome, call, emptyKind) ==
    [s EXCEPT !.attempt = s.attempt + 1,
              !.last_error = IF outcome.kind = "raise"
                             THEN Detail("exception", outcome.err)
                             ELSE Detail(emptyKind, <<>>),
              !.log = IF outcome.kind = "raise"
                      THEN s.log \o <<call, "sleep">>
                      ELSE Append(s.log, call)]

\* return 200, text
GeminiHit(s, outcome, call) ==
    [s EXCEPT !.pc = "reply", !.status = 200, !.gen_text = GeminiText(outcome),
              !.log = Append(s.log, call)]

\* One pass of the loop over the main model.
GeminiPrimary(outcome) ==
    /\ vs.pc = "primary"
    /\ vs' = IF outcome.kind # "raise" /\ GeminiText(outcome) # <<>>
             THEN GeminiHit(vs, outcome, "primary")
             ELSE LET s == GeminiMiss(vs, outcome, "primary", "Empty response from Gemini")
                  IN  IF s.attempt < PRIMARY_ATTEMPTS THEN s
                      ELSE [s EXCEPT !.pc = "fallback", !.attempt = 0]
    /\ UNCHANGED req

\* One pass of the loop over the fallback model; return 500, last_error
\* after the last.
GeminiFallback(outcome) ==
    /\ vs.pc = "fallback"
    /\ vs' = IF outcome.kind # "raise" /\ GeminiText(outcome) # <<>>
             THEN GeminiHit(vs, outcome, "fallback")
             ELSE LET s == GeminiMiss(vs, outcome, "fallback",
                                      "Empty response from Gemini fallback")
                  IN  IF s.attempt < FALLBACK_ATTEMPTS THEN s
                      ELSE [s EXCEPT !.pc = "reply", !.status = 500]
    /\ UNCHANGED req

\* voice_endpoint of the Gemini variant after call_gemini_generate returned.
GeminiReply(ttsRaises) ==
    /\ vs.pc = "reply"
    /\ LET gtts_lang == GTTS_LANG_FROM_LABEL("gemini", vs.label)
       IN  IF vs.status # 200 \/ Strip(vs.gen_text) = <<>>
           THEN LET tts == tts_gemini(BUSY_REPLY, gtts_lang, ttsRaises)
                IN  vs' = [vs EXCEPT
                             !.pc = "done",
                             !.log = IF tts.called THEN Append(vs.log, "tts") ELSE vs.log,
                             !.tts = TtsEnded(tts),
                             !.resp = ReplyAudioError(
                                          BUSY_REPLY, tts.value,
                                          IF vs.status = 500 THEN "GEMINI_500"
                                          ELSE "GEMINI_200",
                                          vs.last_error)]
           ELSE LET short_reply == shorten_text_to_sentences(vs.gen_text, MAX_SENTENCES)
                    tts == tts_gemini(short_reply, gtts_lang, ttsRaises)
                IN  vs' = [vs EXCEPT
                             !.pc = "done",
                             !.log = IF tts.called THEN Append(vs.log, "tts") ELSE vs.log,
                             !.tts = TtsEnded(tts),
                             !.resp = IF tts.status # 200
                                      THEN ReplyAudioError(short_reply, NullAudio,
                                                           "TTS_FAILED",
                                                           Detail("exception", <<>>))
                                      ELSE ReplyAudio(short_reply, tts.value)]
    /\ UNCHANGED req

\* voice_endpoint of the merged variant from graph.invoke on.
MergedReply(outcome, graphRaises, ttsRaises) ==
    /\ vs.pc = "agent"
    /\ LET result == GraphInvoke(outcome, graphRaises)
           answered == IF result.raised
                       THEN APOLOGY \o <<" ", "(">> \o GraphError \o <<")">>
                       ELSE Strip(result.reply)
           reply == shorten_text(answered)
           tts == tts_merged(reply, GTTS_LANG_FROM_LABEL("merged", vs.label), ttsRaises)
       IN  vs' = [vs EXCEPT
                    !.pc = "done",
                    !.gen_text = answered,
                    !.log = IF tts.called THEN <<"agent", "tts">> ELSE <<"agent">>,
                    !.tts = TtsEnded(tts),
                    !.resp = ReplyAudio(reply, tts.value)]
    /\ UNCHANGED req

InitVoice == AppInit /\ AgentParked /\ VoiceInit /\ SideParked

NextVoice ==
    \/ VoiceReceive /\ UNCHANGED <<appVars, agentVars, sideVars>>
    \/ \E o \in VoiceLmOutcomes : GeminiPrimary(o) /\ UNCHANGED <<appVars, agentVars, sideVars>>
    \/ \E o \in VoiceLmOutcomes : GeminiFallback(o) /\ UNCHANGED <<appVars, agentVars, sideVars>>
    \/ \E t \in BOOLEAN : GeminiReply(t) /\ UNCHANGED <<appVars, agentVars, sideVars>>
    \/ \E o \in VoiceLmOutcomes, g \in BOOLEAN, t \in BOOLEAN :
           MergedReply(o, g, t) /\ UNCHANGED <<appVars, agentVars, sideVars>>

SpecVoice == InitVoice /\ [][NextVoice]_vars

(***************************************************************************)
(* The short-reply logic on its own: shorten_text_to_sentences of the      *)
(* Gemini variant and shorten_text of the merged variant                   *)
(***************************************************************************)
\* The characters that vary in a reply: the second and the fifth are a
\* letter or a full stop, the third and the sixth a letter or a space (so
\* that a reply has one, two or three sentences), and the ones around the
\* cut and the limit a letter or a space.
SentenceMarks == {2, 5}
SpaceMarks ==
    {3, 6, SHORT_CUT - 1, SHORT_CUT, SHORT_MAX_CHARS - 1, SHORT_MAX_CHARS,
     SHORT_MAX_CHARS + 1}

ShortenLengths == {1, 2, 4, 7, 8} \cup ((SHORT_CUT - 1)..(SHORT_MAX_CHARS + MaxOver))

ShortenText(n, stops, spaces) ==
    [i \in 1..n |-> IF i = n THEN "a"
                    ELSE IF i \in stops THEN "."
                    ELSE IF i \in spaces THEN " "
                    ELSE "a"]

ShortenTexts ==
    {ShortenText(n, stops, spaces) :
        n \in ShortenLengths, stops \in SUBSET SentenceMarks, spaces \in SUBSET SpaceMarks}

ShortenInit ==
    sh \in {[pc |-> "start", variant |-> v, text |-> t, out |-> <<>>] :
               v \in Variants, t \in ShortenTexts}

\* short_reply = shorten_text_to_sentences(gen_text, max_sentences=2), and
\* reply = shorten_text(reply) in the merged variant.
Shorten ==
    /\ sh.pc = "start"
    /\ sh' = [sh EXCEPT !.pc = "done",
                        !.out = IF sh.variant = "gemini"
                                THEN shorten_text_to_sentences(sh.text, MAX_SENTENCES)
                                ELSE shorten_text(sh.text)]

InitShorten ==
    /\ AppInit /\ AgentParked /\ VoiceParked
    /\ ShortenInit /\ VisionParked /\ RaceParked /\ AlarmParked /\ WidgetParked

NextShorten == Shorten /\ UNCHANGED <<appVars, agentVars, voiceVars, vis, reg, alarm, va>>

SpecShorten == InitShorten /\ [][NextShorten]_vars

(***************************************************************************)
(* POST /vision of src/voice-server/voice_proxy.py: one request per        *)
(* behaviour                                                               *)
(***************************************************************************)
VISION_ERROR ==
    <<"V", "i", "s", "i", "o", "n", " ", "e", "r", "r", "o", "r", ":", " ">>

VISION_SORRY ==
    <<"S", "o", "r", "r", "y", ",", " ", "I", " ", "c", "o", "u", "l", "d",
      " ", "n", "o", "t", " ", "a", "n", "a", "l", "y", "z", "e", " ", "t",
      "h", "e", " ", "i", "m", "a", "g", "e", ".", " ", "P", "l", "e", "a",
      "s", "e", " ", "t", "r", "y", " ", "a", "g", "a", "i", "n", ".">>

\* str(e) of an exception of image.read()
ReadError == <<"r">>

\* {"reply": reply}
ReplyOnly(reply) ==
    [http |-> 200, keys |-> {"reply"}, reply |-> reply, audio |-> NullAudio,
     error |-> "", detail |-> NoDetail]

\* The exception leaves the endpoint: FastAPI answers 500.
Unhandled ==
    [http |-> 500, keys |-> {}, reply |-> <<>>, audio |-> NullAudio,
     error |-> "Internal Server Error", detail |-> NoDetail]

\* vision_endpoint without its try / except.
vision_endpoint_NoCatch(readRaises, outcome, graphRaises) ==
    IF readRaises \/ graphRaises THEN Unhandled
    ELSE LET reply == Strip(GraphInvoke(outcome, graphRaises).reply)
         IN  ReplyOnly(IF reply = <<>> THEN VISION_SORRY ELSE reply)

\* vision_endpoint: image.read(), graph.invoke with the image bytes, the
\* reply or the canned sentence; any exception gives "Vision error: <e>".
vision_endpoint(readRaises, outcome, graphRaises) ==
    IF readRaises THEN ReplyOnly(VISION_ERROR \o ReadError)
    ELSE IF graphRaises THEN ReplyOnly(VISION_ERROR \o GraphError)
    ELSE LET reply == Strip(GraphInvoke(outcome, graphRaises).reply)
         IN  ReplyOnly(IF reply = <<>> THEN VISION_SORRY ELSE reply)

\* The upload: no bytes at all, bytes that are no image, a picture.
Images == {"empty", "corrupt", "valid"}

\* What generate_content does with the prompt and the image: an answer, a
\* blank text, no text, an exception with a short, an empty and a long
\* message.
VisionLmOutcomes ==
    {LmText(<<"o", "k">>), LmText(<<" ">>), LmNone, LmRaise(<<"e">>), LmRaise(<<>>),
     LmRaise([i \in 1..REPLY_LIMIT |-> "e"])}

VisionInit ==
    vis \in {[pc |-> "start", image |-> i, readRaises |-> r, graphRaises |-> g,
              lm |-> o, resp |-> NoResponse] :
                i \in Images, r \in BOOLEAN, g \in BOOLEAN, o \in VisionLmOutcomes}

\* One POST /vision request.
Vision ==
    /\ vis.pc = "start"
    /\ vis' = [vis EXCEPT !.pc = "done",
                          !.resp = vision_endpoint(vis.readRaises, vis.lm,
                                                   vis.graphRaises)]

InitVision ==
    /\ AppInit /\ AgentParked /\ VoiceParked
    /\ ShortenParked /\ VisionInit /\ RaceParked /\ AlarmParked /\ WidgetParked

NextVision == Vision /\ UNCHANGED <<appVars, agentVars, voiceVars, sh, reg, alarm, va>>

SpecVision == InitVision /\ [][NextVision]_vars

(***************************************************************************)
(* Two sessions submit the register form: each runs load_users, the check, *)
(* the insert and save_users in its own script thread, with nothing that   *)
(* keeps the two apart.  save_users is two steps on the file: open(.., "w")*)
(* empties it, json.dump and the close write the document.                 *)
(***************************************************************************)
Sessions == {1, 2}
RaceIds == {"a@x.com", "b@x.com"}
RacePasswords == {"p1", "p2"}

Other(p) == 3 - p

InFlight(pc) == pc \in {"loaded", "opened"}

RaceInit == reg = [procs |-> [p \in Sessions |-> RegIdle], overlapped |-> FALSE]

\* The form passed its validation: users = load_users(), the check
\* "reg_email in users" and, in memory, users[reg_email] = {...}.
RaceLoad(p, id, pw) ==
    /\ reg.procs[p].pc = "idle"
    /\ LET users == load_users(usersFile)
           me == IF UserExists(users, id)
                 THEN [RegIdle EXCEPT !.pc = "done", !.id = id, !.pw = pw,
                                      !.msg = "User already exists"]
                 ELSE [RegIdle EXCEPT !.pc = "loaded", !.id = id, !.pw = pw,
                                      !.users = InsertUser(users, id, pw)]
       IN  reg' = [procs |-> [reg.procs EXCEPT ![p] = me],
                   overlapped |-> reg.overlapped \/ InFlight(reg.procs[Other(p)].pc)]
    /\ UNCHANGED usersFile

\* save_users: open(USERS_FILE, "w").  It fails and nothing is touched, or
\* the file is empty from now on until this session's document is written.
RaceOpen(p, outcome) ==
    /\ reg.procs[p].pc = "loaded"
    /\ outcome \in {"ok", "open_failed"}
    /\ IF outcome = "open_failed"
       THEN /\ usersFile' = save_users(usersFile, reg.procs[p].users, outcome).file
            /\ reg' = [reg EXCEPT !.procs[p].pc = "done",
                                  !.procs[p].msg = "Error saving account."]
       ELSE /\ usersFile' = CorruptFile
            /\ reg' = [reg EXCEPT !.procs[p].pc = "opened"]

\* save_users: json.dump and the close.  The other session's open file is
\* stale afterwards: what it writes lands on top of this document, and gives
\* its own document or, when that is the shorter one, no document at all.
RaceWrite(p, outcome, garbled) ==
    /\ reg.procs[p].pc = "opened"
    /\ outcome \in {"ok", "write_failed"}
    /\ LET r == save_users(usersFile, reg.procs[p].users, outcome)
           q == Other(p)
       IN  /\ usersFile' = IF r.ok /\ reg.procs[p].stale /\ garbled THEN CorruptFile
                           ELSE r.file
           /\ reg' = [reg EXCEPT
                        !.procs[p].pc = "done",
                        !.procs[p].msg = IF r.ok THEN "Account created. Please login."
                                         ELSE "Error saving account.",
                        !.procs[q].stale = IF reg.procs[q].pc = "opened" THEN TRUE
                                           ELSE reg.procs[q].stale]

raceRest == <<logged_in, username, chat_history, user_input, nav, ui_language,
              reminders, rendered, last, prediction, invoked, agentVars, voiceVars,
              sh, vis, alarm, va>>

InitRace ==
    /\ AppInit /\ AgentParked /\ VoiceParked
    /\ ShortenParked /\ VisionParked /\ RaceInit /\ AlarmParked /\ WidgetParked

NextRace ==
    \/ \E p \in Sessions, id \in RaceIds, pw \in RacePasswords :
           RaceLoad(p, id, pw) /\ UNCHANGED raceRest
    \/ \E p \in Sessions, o \in SaveOutcomes : RaceOpen(p, o) /\ UNCHANGED raceRest
    \/ \E p \in Sessions, o \in SaveOutcomes, g \in BOOLEAN :
           RaceWrite(p, o, g) /\ UNCHANGED raceRest

SpecRace == InitRace /\ [][NextRace]_vars

(***************************************************************************)
(* build_alarm_js: the script of the open alarm page.  setInterval runs    *)
(* checkAlarm every 10 seconds; speechSynthesis speaks the utterances it   *)
(* is given one after the other and reports the end of each.               *)
(***************************************************************************)
\* The ticks followed.
MaxTicks == 8

\* setInterval(checkAlarm, 1000 * 10): the ticks that fall in one minute.
TicksPerMinute == 6

\* new Date() at a tick: the page was opened at 16:04:40, so the first tick
\* is the last one of 16:04 and the next six fall in 16:05.
Now(tick) == [h |-> 16, m |-> 4 + ((tick + TicksPerMinute - 2) \div TicksPerMinute)]

\* hh + ":" + mm with padStart(2, '0')
Current(tick) == FormatHHMM(Now(tick))

\* A reminder as alarm_page stores it.
AlarmReminder(t, repeat) ==
    [name |-> "Mr. Lokesh", msg |-> "Please take tablets. It's 4 PM.",
     time |-> FormatHHMM(t), repeat |-> repeat]

AlarmTimes == {[h |-> 16, m |-> 5], [h |-> 16, m |-> 6]}
AlarmRepeats == {1, 2}

\* The reminder lists of the page: one reminder, or two.
AlarmReminderLists ==
    LET R == {AlarmReminder(t, n) : t \in AlarmTimes, n \in AlarmRepeats}
    IN  {<<r>> : r \in R} \cup {<<r1, r2>> : r1 \in R, r2 \in R}

\* (r.name || "Reminder") + ", " + (r.msg || "Please take medicine")
AlarmText(r) ==
    [name |-> IF r.name = "" THEN "Reminder" ELSE r.name,
     msg |-> IF r.msg = "" THEN "Please take medicine" ELSE r.msg]

\* speechSynthesis.speak(u) by the speakOnce of chain c: its next utterance.
Utterance(chains, c) ==
    [chain |-> c, n |-> chains[c].count + 1, rem |-> chains[c].rem,
     text |-> AlarmText(chains[c].reminder)]

\* speakText(text, repeat) for reminder i at a tick: cancel() takes every
\* utterance off the queue, a new chain with count = 0 speaks once.
speakText(st, i, tick, rems) ==
    LET chains == Append(st.chains, [rem |-> i, reminder |-> rems[i], count |-> 0,
                                     repeat |-> rems[i].repeat, born |-> tick])
    IN  [chains |-> chains,
         queue |-> <<Utterance(chains, Len(chains))>>,
         cancelled |-> st.cancelled \o st.queue]

\* reminders.forEach of checkAlarm, from reminder i on.
RECURSIVE checkAlarm(_, _, _, _)
checkAlarm(st, i, tick, rems) ==
    IF i > Len(rems) THEN st
    ELSE IF rems[i].time = Current(tick)
    THEN checkAlarm(speakText(st, i, tick, rems), i + 1, tick, rems)
    ELSE checkAlarm(st, i + 1, tick, rems)

\* u.onend of an utterance of chain c: count++, and speakOnce again while
\* count < repeat.
OnEnd(st, c) ==
    LET chains == [st.chains EXCEPT ![c].count = @ + 1]
    IN  [st EXCEPT !.chains = chains,
                   !.queue = IF chains[c].count < chains[c].repeat
                             THEN Append(st.queue, Utterance(chains, c))
                             ELSE st.queue]

\* The events of the utterances cancel() took off the queue, in order, when
\* the browser reports them as "end".
RECURSIVE EndCancelled(_)
EndCancelled(st) ==
    IF st.cancelled = <<>> THEN st
    ELSE EndCancelled(OnEnd([st EXCEPT !.cancelled = Tail(st.cancelled)],
                            Head(st.cancelled).chain))

\* The utterance that is being spoken, if any.
Speaking(queue) == IF queue = <<>> THEN {} ELSE {Head(queue)}

\* begun, after the queue changed: an utterance that is being spoken now
\* and was not before has begun, and is counted in its reminder's minute.
Begun(a, queue, tick) ==
    [i \in 1..Len(a.reminders) |->
        IF \E u \in Speaking(queue) \ Speaking(a.queue) :
               u.rem = i /\ a.reminders[i].time = Current(tick)
        THEN a.begun[i] + 1 ELSE a.begun[i]]

\* The page with its reminders has just been rendered.
AlarmInit == alarm \in {AlarmLoaded(rems) : rems \in AlarmReminderLists}

\* One run of checkAlarm.  The utterances cancel() removed are reported as
\* "end" (their onend runs, after checkAlarm) or as "error" (no handler), as
\* the browser has it.
AlarmTick(endOnCancel) ==
    /\ alarm.tick < MaxTicks
    /\ LET tick == alarm.tick + 1
           st0 == [chains |-> alarm.chains, queue |-> alarm.queue, cancelled |-> <<>>]
           st1 == checkAlarm(st0, 1, tick, alarm.reminders)
           st2 == IF endOnCancel THEN EndCancelled(st1) ELSE st1
       IN  alarm' = [alarm EXCEPT !.tick = tick,
                                  !.chains = st2.chains,
                                  !.queue = st2.queue,
                                  !.begun = Begun(alarm, st2.queue, tick)]

\* The utterance that is being spoken ends: its onend runs, and the next
\* utterance of the queue, if there is one, begins.
UtteranceEnd ==
    /\ alarm.queue # <<>>
    /\ LET u == Head(alarm.queue)
           st == OnEnd([chains |-> alarm.chains, queue |-> Tail(alarm.queue),
                        cancelled |-> <<>>], u.chain)
       IN  alarm' = [alarm EXCEPT
                       !.chains = st.chains,
                       !.queue = st.queue,
                       !.begun = Begun(alarm, st.queue, alarm.tick),
                       !.ended[u.rem] =
                           IF alarm.reminders[u.rem].time = Current(alarm.tick)
                           THEN @ + 1 ELSE @]

InitAlarm ==
    /\ AppInit /\ AgentParked /\ VoiceParked
    /\ ShortenParked /\ VisionParked /\ RaceParked /\ AlarmInit /\ WidgetParked

NextAlarm ==
    \/ \E e \in BOOLEAN :
           AlarmTick(e) /\ UNCHANGED <<appVars, agentVars, voiceVars, sh, vis, reg, va>>
    \/ UtteranceEnd /\ UNCHANGED <<appVars, agentVars, voiceVars, sh, vis, reg, va>>

SpecAlarm == InitAlarm /\ [][NextAlarm]_vars

(***************************************************************************)
(* build_voice_widget_html: the script of the voice widget.  Every action  *)
(* is one run of a handler or of a stretch between two awaits: the click   *)
(* on the microphone, the callbacks of a SpeechRecognition object, and the *)
(* stretches of the audio mode around getUserMedia, the recording timer    *)
(* and the upload.  The handlers of every session share isListening, the   *)
(* microphone's class and the status line; recog holds the last object.    *)
(***************************************************************************)
\* The sessions started in one behaviour.
MaxSessions == 3

\* recog = new SpeechRecognition() after recog.start(): "started" until its
\* end event, "failed" when start() threw.
RecogSession(startThrows) ==
    [kind |-> "recog", pc |-> IF startThrows THEN "failed" ELSE "started",
     stopped |-> FALSE, result |-> FALSE, errored |-> FALSE]

\* The audio mode of one click, waiting for getUserMedia.
RecordSession ==
    [kind |-> "record", pc |-> "media", stopped |-> FALSE, result |-> FALSE,
     errored |-> FALSE]

\* isListening = false; mic.classList.remove('va-micon'); setStatus('Idle')
ListeningOff(w) ==
    [w EXCEPT !.isListening = FALSE, !.micon = FALSE, !.status = "Idle"]

\* recog.stop() of the click handler: asks the session of the last object
\* to stop, which then still delivers its events; nothing for null and for
\* a session that is over.
RecogStop(sessions, r) ==
    IF r # 0 /\ sessions[r].pc = "started"
    THEN [sessions EXCEPT ![r].stopped = TRUE]
    ELSE sessions

\* mic.addEventListener('click', ...) up to its first await.  A click that
\* turns listening on starts a session, as long as fewer than MaxSessions
\* were started.
MicClick(startThrows) ==
    /\ va.status # "parked"
    /\ IF ~va.isListening
       THEN /\ Len(va.sessions) < MaxSessions
            /\ LET n == Len(va.sessions) + 1
                   on == [va EXCEPT !.isListening = TRUE, !.micon = ~va.micon,
                                    !.status = "Listening..."]
               IN  va' = IF va.supported
                         THEN LET w == [on EXCEPT
                                          !.recog = n,
                                          !.sessions = Append(va.sessions,
                                                           RecogSession(startThrows))]
                              IN  IF startThrows THEN ListeningOff(w) ELSE w
                         ELSE [on EXCEPT !.sessions = Append(va.sessions, RecordSession)]
       ELSE /\ ~startThrows
            /\ va' = [va EXCEPT !.isListening = FALSE, !.micon = ~va.micon,
                                !.status = "Idle",
                                !.sessions = RecogStop(va.sessions, va.recog)]

\* recog.onresult: the one final transcript goes to assistantFlow, which
\* touches neither the flag nor the status.
RecogResult(s) ==
    /\ s \in 1..Len(va.sessions)
    /\ va.sessions[s].kind = "recog" /\ va.sessions[s].pc = "started"
    /\ ~va.sessions[s].result /\ ~va.sessions[s].errored
    /\ va' = [va EXCEPT !.sessions[s].result = TRUE]

\* recog.onerror: setStatus('Mic Error')
RecogError(s) ==
    /\ s \in 1..Len(va.sessions)
    /\ va.sessions[s].kind = "recog" /\ va.sessions[s].pc = "started"
    /\ ~va.sessions[s].errored
    /\ va' = [va EXCEPT !.status = "Mic Error", !.sessions[s].errored = TRUE]

\* recog.onend, the last event of a session.
RecogEnd(s) ==
    /\ s \in 1..Len(va.sessions)
    /\ va.sessions[s].kind = "recog" /\ va.sessions[s].pc = "started"
    /\ va' = ListeningOff([va EXCEPT !.sessions[s].pc = "ended"])

\* recordAudioOnce after getUserMedia: mediaRecorder.start() and the timer
\* of four seconds, or the rejection, which the click handler catches
\* before it runs its last three lines.
RecordMedia(s, granted) ==
    /\ s \in 1..Len(va.sessions)
    /\ va.sessions[s].kind = "record" /\ va.sessions[s].pc = "media"
    /\ va' = IF granted
             THEN [va EXCEPT !.sessions[s].pc = "recording"]
             ELSE ListeningOff([va EXCEPT !.sessions[s].pc = "ended",
                                          !.sessions[s].errored = TRUE])

\* The timer's mediaRecorder.stop() and onstop resolve the recording, and
\* the handler goes on to callVoiceAudioEndpoint; mediaRecorder.onerror
\* rejects it, and the handler runs its last three lines.
RecordStop(s, failed) ==
    /\ s \in 1..Len(va.sessions)
    /\ va.sessions[s].kind = "record" /\ va.sessions[s].pc = "recording"
    /\ va' = IF failed
             THEN ListeningOff([va EXCEPT !.sessions[s].pc = "ended",
                                          !.sessions[s].errored = TRUE])
             ELSE [va EXCEPT !.sessions[s].pc = "upload",
                             !.sessions[s].stopped = TRUE]

\* The click handler of the audio mode after callVoiceAudioEndpoint and the
\* playback: isListening = false, the class removed, setStatus('Idle').
RecordDone(s) ==
    /\ s \in 1..Len(va.sessions)
    /\ va.sessions[s].kind = "record" /\ va.sessions[s].pc = "upload"
    /\ va' = ListeningOff([va EXCEPT !.sessions[s].pc = "ended",
                                     !.sessions[s].result = TRUE])

WidgetInit == va \in {WidgetLoaded(b) : b \in BOOLEAN}

widgetRest == <<appVars, agentVars, voiceVars, sh, vis, reg, alarm>>

InitWidget ==
    /\ AppInit /\ AgentParked /\ VoiceParked
    /\ ShortenParked /\ VisionParked /\ RaceParked /\ AlarmParked /\ WidgetInit

NextWidget ==
    \/ \E t \in BOOLEAN : MicClick(t) /\ UNCHANGED widgetRest
    \/ \E s \in 1..MaxSessions : RecogResult(s) /\ UNCHANGED widgetRest
    \/ \E s \in 1..MaxSessions : RecogError(s) /\ UNCHANGED widgetRest
    \/ \E s \in 1..MaxSessions : RecogEnd(s) /\ UNCHANGED widgetRest
    \/ \E s \in 1..MaxSessions, g \in BOOLEAN : RecordMedia(s, g) /\ UNCHANGED widgetRest
    \/ \E s \in 1..MaxSessions, f \in BOOLEAN : RecordStop(s, f) /\ UNCHANGED widgetRest
    \/ \E s \in 1..MaxSessions : RecordDone(s) /\ UNCHANGED widgetRest

SpecWidget == InitWidget /\ [][NextWidget]_vars

(***************************************************************************)
(* Claims about the user store and the session (checked under Spec)        *)
(***************************************************************************)
\* This step is a submit of the given kind (login, register or logout).
IsSubmit(op) == last'.n # last.n /\ last'.op = op

\* C1 (user store round trip): when a login submit for identifier i comes
\* right after a registration of i with password p that reported success, the
\* login succeeds exactly when it supplies p: with p the session is logged in
\* as i and shows "Logged in"; with any other password it stays logged out
\* and shows "Invalid credentials".
C1_RoundTrip ==
    (last.op = "login" /\ last.follows # NoAccount /\ last.follows.id = last.id)
        => IF last.pw = last.follows.pw
           THEN logged_in /\ username = last.id /\ last.msg = "Logged in"
           ELSE ~logged_in /\ username = "" /\ last.msg = "Invalid credentials"

\* A login with the registered pair, right after its registration, has logged
\* the user in.
C1_Witness ==
    /\ last.op = "login"
    /\ last.follows = [id |-> "a@x.com", pw |-> "p1"]
    /\ last.id = "a@x.com" /\ last.pw = "p1"
    /\ logged_in /\ username = "a@x.com"

\* C2 (duplicate registration): a registration submit that passes the form's
\* validation and names an identifier already in the store shows "User
\* already exists", does not call save_users, leaves the file as it was; the
\* password stored before still authenticates and the submitted one, if
\* different, does not.
C2_Step ==
    (/\ IsSubmit("register")
     /\ last'.pw # "" /\ last'.pw = last'.confirm
     /\ last'.id \in DOMAIN load_users(usersFile))
        => LET old == load_users(usersFile)[last'.id].password
               after == load_users(usersFile')
           IN  /\ last'.msg = "User already exists"
               /\ ~last'.saved
               /\ usersFile' = usersFile
               /\ last'.id \in DOMAIN after /\ after[last'.id].password = old
               /\ last'.pw # old =>
                      ~(last'.id \in DOMAIN after /\ after[last'.id].password = last'.pw)

C2_DuplicateRegistration == [][C2_Step]_vars

\* A registration of an existing identifier with another password was
\* refused and the stored password is still the first one.
C2_Witness ==
    /\ last.op = "register" /\ last.msg = "User already exists"
    /\ last.id = "a@x.com" /\ last.pw = "p2"
    /\ usersFile.state = "valid"
    /\ "a@x.com" \in DOMAIN usersFile.users
    /\ usersFile.users["a@x.com"].password = "p1"

\* C3 (login state machine):
\*  - a login submit logs the session in exactly when the store, as it is at
\*    the submit, holds the identifier with the supplied password, and the
\*    username is then that identifier;
\*  - a logged-in session's most recent submit is such a successful login of
\*    its username;
\*  - a login submit that fails leaves the login flag, the username, the chat
\*    history, the reminders and the navigation as they were;
\*  - while logged out only the login / register view is rendered, and no
\*    step changes chat history, reminders, navigation, language or input.
C3_State ==
    /\ logged_in => /\ last.op = "login" /\ last.msg = "Logged in"
                    /\ username = last.id
                    /\ rendered \cap {"LoginRegister"} = {}
    /\ ~logged_in => rendered = {"LoginRegister"}

C3_Step ==
    /\ C3_State /\ C3_State'
    /\ IsSubmit("login") =>
          LET users == load_users(usersFile)
              good == last'.id \in DOMAIN users
                         /\ users[last'.id].password = last'.pw
          IN  /\ logged_in' <=> good
              /\ good => username' = last'.id
              /\ ~good => UNCHANGED <<logged_in, username, chat_history,
                                      reminders, nav>>
    /\ ~logged_in => UNCHANGED <<chat_history, reminders, nav, ui_language,
                                 user_input>>

C3_LoginStateMachine == [][C3_Step]_vars

\* A login with a wrong password for a registered identifier failed, in a
\* session that had navigated away from Home before.
C3_Witness ==
    /\ last.op = "login" /\ last.msg = "Invalid credentials"
    /\ last.id \in DOMAIN load_users(usersFile)
    /\ ~logged_in /\ nav = "Chat Assistant" /\ rendered = {"LoginRegister"}

\* C4 (logout): a logout happens in a logged-in session, sets the login flag
\* to false and empties username, chat history and reminders; the user store,
\* the navigation, the language and the input box are as before; the render
\* that follows shows the login / register view alone.
C4_Step ==
    IsSubmit("logout") =>
        /\ logged_in
        /\ ~logged_in' /\ username' = "" /\ chat_history' = <<>> /\ reminders' = <<>>
        /\ UNCHANGED <<usersFile, nav, ui_language, user_input>>
        /\ rendered' = {"LoginRegister"}

C5_Step ==
    IsSubmit("register") =>
        /\ (last'.id = "" \/ last'.pw = "" \/ last'.pw # last'.confirm) =>
              /\ last'.msg \in {"Please fill all fields", "Passwords do not match"}
              /\ ~last'.loaded /\ ~last'.saved
              /\ usersFile' = usersFile
        /\ UNCHANGED <<logged_in, username>>
        /\ ~logged_in'

C5_RegistrationValidation == [][C5_Step]_vars

\* A registration whose confirmation differs was refused while the store
\* held an account.
C5_Witness ==
    /\ last.op = "register" /\ last.msg = "Passwords do not match"
    /\ last.id = "b@x.com"
    /\ usersFile.state = "valid" /\ DOMAIN usersFile.users = {"a@x.com"}
    /\ ~logged_in

\* C6 (account durability): no step removes an account from the store or
\* changes its password.
C6_Step ==
    \A i \in DOMAIN load_users(usersFile) :
        /\ i \in DOMAIN load_users(usersFile')
        /\ load_users(usersFile')[i] = load_users(usersFile)[i]

C6_AccountsDurable == [][C6_Step]_vars


\* C16: Predict shows "High" for a reading of 200 or more, "Moderate" for
\* a reading from 140 to 199 and "Low" below, whatever the age, and changes
\* nothing of the session.
C16_Step ==
    prediction' # NoPrediction =>
        /\ prediction'.glucose \in 0..1000 /\ prediction'.age \in 1..120
        /\ prediction'.glucose >= 200 => prediction'.risk = "High"
        /\ (140 <= prediction'.glucose /\ prediction'.glucose < 200)
               => prediction'.risk = "Moderate"
        /\ prediction'.glucose < 140 => prediction'.risk = "Low"
        /\ UNCHANGED <<usersFile, logged_in, username, chat_history, user_input,
                       nav, ui_language, reminders>>

C16_DiabetesRule == [][C16_Step]_vars

\* A reading of exactly 200 was predicted "High" for a logged-in user.
C16_Witness ==
    /\ logged_in
    /\ prediction = [glucose |-> 200, age |-> 120, risk |-> "High"]

(***************************************************************************)
(* Claims about the chat page (checked under SpecChat)                     *)
(***************************************************************************)
\* The history has even length and its roles alternate user, assistant.
Alternating ==
    /\ Len(chat_history) % 2 = 0
    /\ \A i \in 1..Len(chat_history) :
           chat_history[i].role = IF i % 2 = 1 THEN "user" ELSE "assistant"

\* C18: a Send with a non-blank input appends the user's message and one
\* assistant reply to the unchanged earlier history, calls the agent graph
\* once with the history that ends with the new user message, and empties
\* the input box; a Send with a blank input changes nothing and calls
\* nothing; Clear empties the history; the history always has even length
\* with roles alternating user, assistant.
C18_Step ==
    /\ (\E o \in AppLmOutcomes, g \in BOOLEAN : handle_send(o, g)) =>
           IF Strip(user_input) = <<>>
           THEN UNCHANGED <<chat_history, user_input>> /\ invoked' = <<>>
           ELSE /\ Len(chat_history') = Len(chat_history) + 2
                /\ SubSeq(chat_history', 1, Len(chat_history)) = chat_history
                /\ chat_history'[Len(chat_history) + 1] =
                       [role |-> "user", content |-> Strip(user_input)]
                /\ chat_history'[Len(chat_history) + 2].role = "assistant"
                /\ chat_history'[Len(chat_history) + 2].content # <<>>
                /\ invoked' = <<SubSeq(chat_history', 1, Len(chat_history) + 1)>>
                /\ user_input' = <<>>
    /\ ClearChat => chat_history' = <<>>
    /\ invoked' # <<>> => Len(chat_history') = Len(chat_history) + 2

C18_ChatHistory == []Alternating /\ [][C18_Step]_vars

\* A second question has been answered: the agent graph was given the first
\* exchange and the new question, and the input box is empty.
C18_Witness ==
    /\ Len(chat_history) = 4
    /\ Len(invoked) = 1 /\ invoked[1] = SubSeq(chat_history, 1, 3)
    /\ user_input = <<>>
    /\ Alternating

(***************************************************************************)
(* Claims about agent_node (checked under SpecAgent)                       *)
(***************************************************************************)
\* C7 (agent truncation), as claimed: for a response text, the reply has at
\* most REPLY_LIMIT characters; a (stripped) response longer than the limit
\* gives the response cut right before a whitespace character that lies
\* within the limit, followed by "..."; a non-empty one within the limit is
\* the reply unchanged.
C7_Truncation ==
    (agent.pc = "done" /\ lm.kind = "text") =>
        LET resp == Strip(lm.text)
        IN  /\ Len(agent.reply) <= REPLY_LIMIT
            /\ Len(resp) > REPLY_LIMIT =>
                  \E k \in 0..(REPLY_LIMIT - 1) :
                      /\ resp[k + 1] \in Whitespace
                      /\ agent.reply = SubSeq(resp, 1, k) \o Ellipsis
            /\ (resp # <<>> /\ Len(resp) <= REPLY_LIMIT) => agent.reply = resp

\* C8 (empty-reply fallback), as claimed: when the call raises or returns a
\* text that is empty after stripping, the reply is the apology sentence; the
\* reply is never empty.
C8_FallbackAsClaimed ==
    agent.pc = "done" =>
        /\ agent.reply # <<>>
        /\ (lm.kind = "raise" \/ Strip(lm.text) = <<>>) => agent.reply = APOLOGY

\* C8, amended: agent_node always ends with a non-empty reply; when the call
\* returns no text or a text that is empty after stripping, the reply is the
\* apology sentence; when the call raises with message e, the reply is the
\* apology followed by " (e)", and when that is longer than REPLY_LIMIT, a
\* prefix of it followed by "...".
C8_Fallback ==
    /\ agent.pc \in {"start", "done"}
    /\ agent.pc = "done" =>
        /\ agent.reply # <<>>
        /\ (lm.kind # "raise" /\ Strip(lm.text) = <<>>) => agent.reply = APOLOGY
        /\ lm.kind = "raise" =>
              LET full == APOLOGY \o <<" ", "(">> \o lm.err \o <<")">>
              IN  IF Len(full) <= REPLY_LIMIT THEN agent.reply = full
                  ELSE \E k \in 0..REPLY_LIMIT :
                           agent.reply = SubSeq(full, 1, k) \o Ellipsis

\* The call raised with message "e" and the reply carries it after the
\* apology.
C8_Witness ==
    /\ agent.pc = "done"
    /\ lm = LmRaise(<<"e">>)
    /\ agent.reply = APOLOGY \o <<" ", "(", "e", ")">>

(***************************************************************************)
(* Claims about POST /voice (checked under SpecVoice)                      *)
(***************************************************************************)
\* The text a request carries: the value of "text", or of the "prompt" alias
\* where the variant reads it, before trimming.
CarriedText ==
    LET p == req.payload
    IN  IF Truthy(p.text) THEN p.text.v
        ELSE IF req.variant = "gemini" /\ Truthy(p.prompt) THEN p.prompt.v
        ELSE <<>>

CarriedBlank == Strip(CarriedText) = <<>>

\* C9 as stated: every request whose text is absent or blank after trimming
\* is answered {reply: "", audio: null}, and neither the language model
\* (agent graph) nor the speech synthesizer is called during the request.
C9_BlankAsClaimed ==
    CarriedBlank =>
        /\ vs.log = <<>>
        /\ vs.pc = "done" => vs.resp = ReplyAudio(<<>>, NullAudio)

\* C9: every request with a non-empty JSON body whose text is absent or blank
\* after trimming is answered {reply: "", audio: null}; the empty body {} is
\* refused with HTTP 400 "Missing JSON body"; in both cases neither the
\* language model (agent graph) nor the speech synthesizer is called.
C9_BlankShortCircuit ==
    CarriedBlank =>
        /\ vs.pc \in {"start", "done"}
        /\ vs.log = <<>>
        /\ vs.pc = "done" =>
               vs.resp = IF PayloadEmpty(req.payload) THEN MissingBody
                         ELSE ReplyAudio(<<>>, NullAudio)

\* A request of a whitespace-only text has been answered with the empty reply.
C9_Witness ==
    /\ req.payload.text = Val(<<" ", "\n">>)
    /\ req.payload.prompt = Val(STOP_en_1)
    /\ vs.pc = "done"
    /\ vs.resp = ReplyAudio(<<>>, NullAudio)
    /\ vs.log = <<>>

\* The language a request's label resolves to.
ResolvedLanguage ==
    LANG_CODE_FROM_LABEL(req.variant, RequestLabel(req.variant, req.payload))

\* The stop phrases of a language, in lower case.
LoweredStops(code) == {Lower(p) : p \in STOP_COMMANDS[code]}

\* C10: a request is answered {reply: "__STOP__", audio: null} without a call
\* to the language model or the synthesizer exactly when its trimmed text
\* equals, ignoring case, a stop phrase of the language the label resolves
\* to; a label that is not recognised resolves to English; a phrase of
\* another language's list only is passed on to the language model.
C10_StopDetection ==
    LET text == Lower(Strip(CarriedText))
        label == RequestLabel(req.variant, req.payload)
        known == IF req.variant = "gemini" THEN Strip(label) ELSE label
    IN  /\ known \notin DOMAIN LangCodeLookup => ResolvedLanguage = "en"
        /\ vs.pc = "done" =>
            /\ (vs.resp = ReplyAudio(STOP_SENTINEL, NullAudio) /\ vs.log = <<>>)
                   <=> text \in LoweredStops(ResolvedLanguage)
            /\ \A code \in DOMAIN STOP_COMMANDS :
                   (text \in LoweredStops(code) /\ code # ResolvedLanguage)
                       => vs.log # <<>> /\ Head(vs.log) \in {"primary", "agent"}

\* "StOP" with whitespace around it and a label that is not recognised has
\* been answered with the sentinel.
C10_Witness ==
    /\ req.payload.text = Val(<<" ", "S", "t", "O", "P", "\n">>)
    /\ req.payload.lang = Val(<<"X">>)
    /\ vs.pc = "done"
    /\ vs.resp = ReplyAudio(STOP_SENTINEL, NullAudio)
    /\ vs.log = <<>>

\* C11: when every language-model attempt of a request failed, the response
\* is success-shaped, carries the canned busy reply and an error marker, and
\* its audio is null or the synthesizer's audio of that reply, never
\* anything else (an error message, say).
C11_LmFailureAudio ==
    (vs.pc = "done" /\ vs.status = 500) =>
        /\ vs.resp.http = 200
        /\ {"reply", "audio", "error"} \subseteq vs.resp.keys
        /\ vs.resp.reply = BUSY_REPLY
        /\ vs.resp.error # ""
        /\ vs.resp.audio \in
               {NullAudio, Mp3(BUSY_REPLY, GTTS_LANG_FROM_LABEL(req.variant, vs.label))}

\* C12: when the language model (the agent graph) gave a reply and speech
\* synthesis failed, the response is success-shaped and carries the shortened
\* reply, a null audio and an error marker, in both variants.
C12_TtsFailure ==
    (vs.pc = "done" /\ vs.tts = "raised"
     /\ (req.variant = "merged" \/ vs.status = 200)) =>
        /\ vs.resp.http = 200
        /\ vs.resp.reply = IF req.variant = "gemini"
                           THEN shorten_text_to_sentences(vs.gen_text, MAX_SENTENCES)
                           ELSE shorten_text(vs.gen_text)
        /\ vs.resp.audio = NullAudio
        /\ "error" \in vs.resp.keys
        /\ vs.resp.error # ""

\* The places of the log that are calls of generate_content.
Attempts == {i \in 1..Len(vs.log) : vs.log[i] \in {"primary", "fallback"}}

\* C13: at most three calls of the primary model and two of the fallback
\* model; a fallback call has three primary calls before it; a call that
\* returned a text is the last call; there is a pause between every two
\* consecutive calls; the canned reply is returned after five calls only.
C13_RetryFallback ==
    /\ Cardinality({i \in Attempts : vs.log[i] = "primary"}) <= PRIMARY_ATTEMPTS
    /\ Cardinality({i \in Attempts : vs.log[i] = "fallback"}) <= FALLBACK_ATTEMPTS
    /\ \A i \in Attempts :
           vs.log[i] = "fallback" =>
               Cardinality({j \in Attempts : j < i /\ vs.log[j] = "primary"})
                   = PRIMARY_ATTEMPTS
    /\ vs.status = 200 =>
           /\ vs.gen_text # <<>>
           /\ \A i \in 1..Len(vs.log) : i > Max(Attempts) => vs.log[i] = "tts"
    /\ \A i, j \in Attempts :
           (i < j /\ ~\E k \in Attempts : i < k /\ k < j) =>
               \E k \in (i + 1)..(j - 1) : vs.log[k] = "sleep"
    /\ (vs.pc = "done" /\ vs.resp.reply = BUSY_REPLY /\ vs.resp.error # "") =>
           Cardinality(Attempts) = PRIMARY_ATTEMPTS + FALLBACK_ATTEMPTS

(***************************************************************************)
(* Claims about the short-reply logic (checked under SpecShorten)          *)
(***************************************************************************)
\* The places of a normalised reply where one sentence ends and the next
\* begins: the spaces that follow a full stop, "!" or "?".
SentenceBreaks(t) == {i \in 2..Len(t) : t[i] = " " /\ t[i - 1] \in SentenceEnd}

\* C14: for a non-empty reply the short reply is exactly the first two
\* sentences when the reply has two sentences or more; otherwise it is the
\* whitespace-normalised reply when that has at most 350 characters, and
\* else a prefix cut at a space followed by "...", at most 350 characters
\* in all.
C14_SentenceShortening ==
    (sh.pc = "done" /\ sh.text # <<>>) =>
        LET t == NormalizeSpaces(sh.text)
            breaks == SentenceBreaks(t)
        IN  IF Cardinality(breaks) >= 1
            THEN sh.out = IF Cardinality(breaks) = 1 THEN t
                          ELSE SubSeq(t, 1, KthSmallest(breaks, 2) - 1)
            ELSE IF Len(t) <= SHORT_MAX_CHARS THEN sh.out = t
            ELSE /\ Len(sh.out) <= SHORT_MAX_CHARS
                 /\ \E k \in 1..Len(t) :
                        /\ t[k] = " "
                        /\ sh.out = SubSeq(t, 1, k - 1) \o Ellipsis

(***************************************************************************)
(* Claims about POST /vision (checked under SpecVision)                    *)
(***************************************************************************)
\* Something failed in the request: reading the upload, the agent graph, or
\* the language model's call.
VisionFailed == vis.readRaises \/ vis.graphRaises \/ vis.lm.kind = "raise"

StartsWith(s, prefix) == Len(s) >= Len(prefix) /\ SubSeq(s, 1, Len(prefix)) = prefix

\* C15 as stated: whatever fails, the endpoint returns {reply} normally with
\* a non-empty reply that describes a vision error ("Vision error: ...").
C15_VisionAsClaimed ==
    (vis.pc = "done" /\ VisionFailed) =>
        /\ vis.resp.http = 200
        /\ vis.resp.keys = {"reply"}
        /\ vis.resp.reply # <<>>
        /\ StartsWith(vis.resp.reply, VISION_ERROR)

\* C15: whatever fails, the endpoint returns {reply} normally with a
\* non-empty reply: "Vision error: <message>" when reading the upload or the
\* agent graph raised, and the agent's apology sentence followed by the
\* message in parentheses (cut by the agent's 500-character rule) when the
\* language model's call raised inside the agent node.
C15_VisionFallback ==
    (vis.pc = "done" /\ VisionFailed) =>
        /\ vis.resp.http = 200
        /\ vis.resp.keys = {"reply"}
        /\ vis.resp.reply # <<>>
        /\ vis.readRaises => vis.resp.reply = VISION_ERROR \o ReadError
        /\ (~vis.readRaises /\ vis.graphRaises) =>
               vis.resp.reply = VISION_ERROR \o GraphError
        /\ (~vis.readRaises /\ ~vis.graphRaises) =>
               /\ StartsWith(vis.resp.reply, APOLOGY)
               /\ vis.resp.reply # APOLOGY
               /\ Len(vis.resp.reply) <= REPLY_LIMIT + Len(Ellipsis)

\* The language model rejected a corrupt image, and the request was answered
\* with the apology.
C15_Witness ==
    /\ vis.pc = "done"
    /\ vis.image = "corrupt"
    /\ ~vis.readRaises /\ ~vis.graphRaises
    /\ vis.lm = LmRaise(<<"e">>)
    /\ vis.resp = ReplyOnly(APOLOGY \o <<" ", "(", "e", ")">>)

(***************************************************************************)
(* Claims about two sessions registering at once (checked under SpecRace)  *)
(***************************************************************************)
\* Both sessions were told "Account created. Please login.".
BothCreated ==
    \A p \in Sessions :
        /\ reg.procs[p].pc = "done"
        /\ reg.procs[p].msg = "Account created. Please login."

Stored(p) ==
    /\ reg.procs[p].id \in DOMAIN load_users(usersFile)
    /\ load_users(usersFile)[reg.procs[p].id].password = reg.procs[p].pw

\* C19: registrations that do not overlap cannot both succeed for one
\* identifier, and when both succeed for distinct identifiers the store holds
\* both accounts; the lost update and the overwritten password are reached
\* by overlapping registrations only (C19_Witness, C19_WitnessSameId).
C19_SequentialSafe ==
    (BothCreated /\ ~reg.overlapped) =>
        /\ reg.procs[1].id # reg.procs[2].id
        /\ Stored(1) /\ Stored(2)

\* Two overlapping registrations of distinct identifiers both reported
\* success and the store holds the second one's account only.
C19_Witness ==
    /\ BothCreated
    /\ reg.overlapped
    /\ reg.procs[1].id = "a@x.com" /\ reg.procs[2].id = "b@x.com"
    /\ usersFile = ValidFile(InsertUser(EmptyUsers, "b@x.com", reg.procs[2].pw))

\* Two overlapping registrations of one identifier with different passwords
\* both reported success and the store holds the later save's password.
C19_WitnessSameId ==
    /\ BothCreated
    /\ reg.overlapped
    /\ reg.procs[1].id = "a@x.com" /\ reg.procs[2].id = "a@x.com"
    /\ reg.procs[1].pw = "p1" /\ reg.procs[2].pw = "p2"
    /\ usersFile = ValidFile(InsertUser(EmptyUsers, "a@x.com", "p2"))

(***************************************************************************)
(* Claims about the alarm script (checked under SpecAlarm)                 *)
(***************************************************************************)
\* C17: a reminder is held with a whole repeat count from 1 to 20 and its
\* time as HH:MM, and during its matching minute, all ticks of the minute
\* counted, at most repeat utterances of it begin.
C17_RepeatBound ==
    \A i \in 1..Len(alarm.reminders) :
        /\ alarm.reminders[i].repeat \in 1..20
        /\ Len(alarm.reminders[i].time) = 5 /\ alarm.reminders[i].time[3] = ":"
        /\ alarm.begun[i] <= alarm.reminders[i].repeat

\* The reminders whose time is the current HH:MM at a tick.
Matching(tick) ==
    {i \in 1..Len(alarm.reminders) : alarm.reminders[i].time = Current(tick)}

\* C20: after a tick every reminder whose time is the current HH:MM has its
\* text "<name>, <message>" with speechSynthesis, at the first of its repeat
\* repetitions, also when several reminders match at the tick; and never are
\* two utterances of one speakText call with speechSynthesis at once.
C20_Step ==
    /\ alarm'.tick # alarm.tick =>
           \A i \in Matching(alarm'.tick) :
               \E k \in 1..Len(alarm'.queue) :
                   LET u == alarm'.queue[k]
                   IN  /\ u.rem = i
                       /\ u.n = 1
                       /\ alarm'.chains[u.chain].born = alarm'.tick
                       /\ u.text = [name |-> alarm.reminders[i].name,
                                    msg |-> alarm.reminders[i].msg]
    /\ \A j, k \in 1..Len(alarm'.queue) :
           alarm'.queue[j].chain = alarm'.queue[k].chain => j = k

C20_AlarmFiring == [][C20_Step]_vars


(***************************************************************************)
(* C21: language resolution of POST /voice                                 *)
(***************************************************************************)
\* C21: for every language label a /voice request carries, the language of
\* the audio that speech synthesis was asked for is the language that
\* LANG_CODE_FROM_LABEL resolves the label to (the one detect_stop_phrase
\* takes the stop list of and call_gemini_generate takes the reply
\* instruction of), and it is one of en, hi, te, ta, gu.
C21_LanguageConsistency ==
    (vs.pc = "done" /\ vs.resp.audio.kind = "mp3") =>
        /\ vs.resp.audio.lang = ResolvedLanguage
        /\ vs.resp.audio.lang \in {"en", "hi", "te", "ta", "gu"}

(***************************************************************************)
(* Claims about the voice widget (checked under SpecWidget)                *)
(***************************************************************************)
\* The sessions that are active: a recognition from start() to its end
\* event, an audio-mode run from the click to the handler's last lines.
ActiveSessions ==
    {s \in 1..Len(va.sessions) : va.sessions[s].pc \notin {"ended", "failed"}}

\* C22: under any interleaving of microphone clicks with the recognition
\* callbacks and the recording timer, at most one recognition or recording
\* session is active, isListening is true exactly while a session is
\* active, and once no session is active any more the flag is false and the
\* status is Idle.
C22_SessionConsistency ==
    /\ Cardinality(ActiveSessions) <= 1
    /\ va.isListening <=> ActiveSessions # {}
    /\ (va.sessions # <<>> /\ ActiveSessions = {}) =>
           ~va.isListening /\ va.status = "Idle"

=============================================================================
